---- MODULE Spec2Model ----
(***************************************************************************)
(* telegram-bot-proxy: the subscription registry (src/src/db.rs), the bot  *)
(* command handler that drives it (src/src/bot.rs) and the HTTP handlers   *)
(* that fan a message out to subscribers (src/src/api.rs).                 *)
(*                                                                         *)
(* A channel name is a sequence of Unicode code points.  The table         *)
(* `subscriptions` is a multiset of rows <<telegram_id, channel_name>>     *)
(* (a function row -> number of copies), so that a duplicate row is a      *)
(* state the model can express.  A Vec<i64> of telegram ids is a multiset  *)
(* too (id -> number of occurrences): the code maps over it, takes its     *)
(* length and counts, and never reads the order of its elements.           *)
(***************************************************************************)
EXTENDS Integers, Sequences, FiniteSets, TLC

VARIABLES
    subscriptions,  \* the rows of table `subscriptions`
    last,           \* the most recent registry call: its arguments, what it
                    \* returned, the SQL statements it ran, the table before it,
                    \* whether the storage failed under it
    req,            \* the HTTP request being served by api.rs
    vname,          \* validate_channel_name: the argument
    vresult,        \* validate_channel_name: "true" or "false" as returned, "none" before the call
    inflight        \* the calls of db::subscribe made by concurrent tasks

vars == <<subscriptions, last, req, vname, vresult, inflight>>

----------------------------------------------------------------------------
(* Bounds *)

NumRecipients == 2
MaxNameLen == 2

Recipients == 1..NumRecipients

\* api.rs:53, :156  the cap on message.len(), the message's length in bytes
MaxMessageLen == 1000

\* a message is modelled by its len(): empty, short, at the cap, over the cap
Messages == {0, 1, MaxMessageLen, MaxMessageLen + 1, 2 * MaxMessageLen}

----------------------------------------------------------------------------
(* Characters (code points) and channel names *)

\* char::is_alphabetic on the code points below U+0100
is_alphabetic(c) ==
    \/ c \in 65..90
    \/ c \in 97..122
    \/ c \in {170, 181, 186}
    \/ c \in 192..214
    \/ c \in 216..246
    \/ c \in 248..255

\* char::is_numeric on the code points below U+0100 (Nd, Nl, No)
is_numeric(c) ==
    \/ c \in 48..57
    \/ c \in {178, 179, 185}
    \/ c \in 188..190

is_alphanumeric(c) == is_alphabetic(c) \/ is_numeric(c)

\* db.rs:15  pub fn validate_channel_name(channel_name: &str) -> bool
validate_channel_name(channel_name) ==
    IF Len(channel_name) = 0
    THEN FALSE
    ELSE \A i \in 1..Len(channel_name) :
            is_alphanumeric(channel_name[i]) \/ channel_name[i] = 95

\* "news_1", "tech", "news 1", "", "café"
NameNews1 == <<110, 101, 119, 115, 95, 49>>
NameTech == <<116, 101, 99, 104>>
NameNewsSpace1 == <<110, 101, 119, 115, 32, 49>>
NameEmpty == <<>>
NameCafe == <<99, 97, 102, 233>>

AsciiNames == {NameNews1, NameTech, NameNewsSpace1, NameEmpty}
UnicodeNames == AsciiNames \cup {NameCafe}

\* the characters validate_channel_name is applied to:
\* '/' '0' '9' ':' '@' 'A' 'Z' '[' '_' '`' 'a' 'z' '{' ' ' '-' '.' U+00B2 U+00D7 U+00E9
Alphabet == {47, 48, 57, 58, 64, 65, 90, 91, 95, 96, 97, 122, 123, 32, 45, 46, 178, 215, 233}

Strings == UNION {[1..n -> Alphabet] : n \in 0..MaxNameLen}

----------------------------------------------------------------------------
(* The storage collaborator: table `subscriptions` *)

NoRows == <<>>

Copies(t, row) == IF row \in DOMAIN t THEN t[row] ELSE 0

\* the UNIQUE (telegram_id, channel_name) constraint of the table
UniqueViolation(t, row) == Copies(t, row) > 0

\* INSERT INTO subscriptions (telegram_id, channel_name) VALUES (?, ?)
\* fault: the statement fails for a reason other than the constraint
InsertRow(t, row, fault) ==
    IF fault
    THEN [ok |-> FALSE, err |-> "storage error", table |-> t]
    ELSE IF UniqueViolation(t, row)
    THEN [ok |-> FALSE, err |-> "UNIQUE constraint failed", table |-> t]
    ELSE [ok |-> TRUE, err |-> "",
          table |-> [x \in DOMAIN t \cup {row} |->
                        IF x = row THEN Copies(t, row) + 1 ELSE t[x]]]

\* DELETE FROM subscriptions WHERE telegram_id = ? AND channel_name = ?
DeleteRows(t, row, fault) ==
    IF fault
    THEN [ok |-> FALSE, rows_affected |-> 0, table |-> t]
    ELSE [ok |-> TRUE, rows_affected |-> Copies(t, row),
          table |-> [x \in DOMAIN t \ {row} |-> t[x]]]

\* the number of elements of the multiset m (a function element -> copies)
RECURSIVE Total(_)
Total(m) ==
    IF DOMAIN m = {} THEN 0
    ELSE LET x == CHOOSE y \in DOMAIN m : TRUE
         IN m[x] + Total([y \in DOMAIN m \ {x} |-> m[y]])

\* SELECT telegram_id FROM subscriptions WHERE channel_name = ?
SelectTelegramIds(t, channel_name) ==
    LET ids == {row[1] : row \in {x \in DOMAIN t : x[2] = channel_name}}
    IN [id \in ids |-> t[<<id, channel_name>>]]

\* SELECT DISTINCT telegram_id FROM subscriptions
SelectDistinctTelegramIds(t) ==
    [id \in {row[1] : row \in DOMAIN t} |-> 1]

\* channel_name a sorts before channel_name b: TEXT compared byte by byte,
\* which on UTF-8 is code point by code point, a proper prefix first
NameBefore(a, b) ==
    \E i \in 1..(Len(a) + 1) :
        /\ i <= Len(b)
        /\ \A j \in 1..(i - 1) : a[j] = b[j]
        /\ (i = Len(a) + 1 \/ a[i] < b[i])

\* ORDER BY telegram_id, channel_name: the two columns swapped
OrderByBefore_IdFirst(x, y) ==
    \/ x[1] < y[1]
    \/ x[1] = y[1] /\ NameBefore(x[2], y[2])

\* ORDER BY channel_name, telegram_id: row x comes before row y
OrderByBefore(x, y) ==
    \/ NameBefore(x[2], y[2])
    \/ x[2] = y[2] /\ x[1] < y[1]

\* SELECT telegram_id, channel_name, created_at FROM subscriptions
\* ORDER BY channel_name, telegram_id
RECURSIVE SelectOrdered(_)
SelectOrdered(t) ==
    IF DOMAIN t = {} THEN <<>>
    ELSE LET first == CHOOSE x \in DOMAIN t :
                         \A y \in DOMAIN t \ {x} : OrderByBefore(x, y)
             rest == [x \in (IF t[first] > 1 THEN DOMAIN t ELSE DOMAIN t \ {first}) |->
                         IF x = first THEN t[x] - 1 ELSE t[x]]
         IN <<first>> \o SelectOrdered(rest)

----------------------------------------------------------------------------
(* db.rs: the registry.  Each function is given the table and returns its  *)
(* Result, the table after it, and the number of SQL statements it ran.    *)

\* subscribe with the result of the INSERT dropped instead of propagated by `?`
subscribe_InsertErrorDropped(t, telegram_id, channel_name, fault) ==
    IF ~validate_channel_name(channel_name)
    THEN [ret |-> "Err", err |-> "Invalid channel name", table |-> t, stmts |-> 0]
    ELSE LET ins == InsertRow(t, <<telegram_id, channel_name>>, fault)
         IN [ret |-> "Ok", err |-> "", table |-> ins.table, stmts |-> 1]

\* db.rs:24  pub async fn subscribe(pool, telegram_id, channel_name) -> Result<()>
subscribe(t, telegram_id, channel_name, fault) ==
    IF ~validate_channel_name(channel_name)
    THEN [ret |-> "Err", err |-> "Invalid channel name", table |-> t, stmts |-> 0]
    ELSE LET ins == InsertRow(t, <<telegram_id, channel_name>>, fault)
         IN IF ins.ok
            THEN [ret |-> "Ok", err |-> "", table |-> ins.table, stmts |-> 1]
            ELSE [ret |-> "Err", err |-> ins.err, table |-> ins.table, stmts |-> 1]

\* unsubscribe with a DELETE that matched no row reported as an error
unsubscribe_NoRowIsError(t, telegram_id, channel_name, fault) ==
    LET del == DeleteRows(t, <<telegram_id, channel_name>>, fault)
    IN IF ~del.ok \/ del.rows_affected = 0
       THEN [ret |-> "Err", err |-> "storage error", table |-> del.table, stmts |-> 1]
       ELSE [ret |-> "Ok(true)", err |-> "", table |-> del.table, stmts |-> 1]

\* unsubscribe with a DELETE that matches on telegram_id alone
unsubscribe_EveryChannel(t, telegram_id, channel_name, fault) ==
    IF fault
    THEN [ret |-> "Err", err |-> "storage error", table |-> t, stmts |-> 1]
    ELSE LET hit == {x \in DOMAIN t : x[1] = telegram_id}
         IN [ret |-> IF hit # {} THEN "Ok(true)" ELSE "Ok(false)", err |-> "",
             table |-> [x \in DOMAIN t \ hit |-> t[x]], stmts |-> 1]

\* db.rs:39  pub async fn unsubscribe(pool, telegram_id, channel_name) -> Result<bool>
unsubscribe(t, telegram_id, channel_name, fault) ==
    LET del == DeleteRows(t, <<telegram_id, channel_name>>, fault)
    IN IF ~del.ok
       THEN [ret |-> "Err", err |-> "storage error", table |-> del.table, stmts |-> 1]
       ELSE [ret |-> IF del.rows_affected > 0 THEN "Ok(true)" ELSE "Ok(false)",
             err |-> "", table |-> del.table, stmts |-> 1]

\* get_subscribers with the WHERE clause of its SELECT left out
get_subscribers_NoWhere(t, channel_name, fault) ==
    IF fault
    THEN [ret |-> "Err", rows |-> <<>>, stmts |-> 1]
    ELSE [ret |-> "Ok", stmts |-> 1,
          rows |-> [id \in {row[1] : row \in DOMAIN t} |->
                      Total([row \in {x \in DOMAIN t : x[1] = id} |-> t[row]])]]

\* db.rs:51  pub async fn get_subscribers(pool, channel_name) -> Result<Vec<i64>>
get_subscribers(t, channel_name, fault) ==
    IF fault
    THEN [ret |-> "Err", rows |-> <<>>, stmts |-> 1]
    ELSE [ret |-> "Ok", rows |-> SelectTelegramIds(t, channel_name), stmts |-> 1]

\* api.rs:209  GET /subscriptions: the query and the body of the response
get_subscriptions(t, fault) ==
    IF fault
    THEN [status |-> 500, subscriptions |-> <<>>, total |-> 0, stmts |-> 1]
    ELSE LET rows == SelectOrdered(t)
         IN [status |-> 200, subscriptions |-> rows, total |-> Len(rows), stmts |-> 1]

----------------------------------------------------------------------------
(* bot.rs: handle_command, one arm per command.  The reply is the message  *)
(* sent back to the chat; called tells whether the db function was called. *)

\* the Subscribe arm without the test on the error's text: every Err of
\* db::subscribe is answered "already subscribed"
handle_command_Subscribe_AnyErrIsDuplicate(t, chat_id, channel_name, fault) ==
    IF ~validate_channel_name(channel_name)
    THEN [reply |-> "Invalid channel name", called |-> FALSE,
          ret |-> "none", err |-> "", table |-> t, stmts |-> 0]
    ELSE LET r == subscribe(t, chat_id, channel_name, fault)
         IN [reply |-> IF r.ret = "Ok" THEN "Successfully subscribed"
                       ELSE "You are already subscribed",
             called |-> TRUE,
             ret |-> r.ret, err |-> r.err, table |-> r.table, stmts |-> r.stmts]

\* bot.rs:26  Command::Subscribe(channel_name)
handle_command_Subscribe(t, chat_id, channel_name, fault) ==
    IF ~validate_channel_name(channel_name)
    THEN [reply |-> "Invalid channel name", called |-> FALSE,
          ret |-> "none", err |-> "", table |-> t, stmts |-> 0]
    ELSE LET r == subscribe(t, chat_id, channel_name, fault)
         IN [reply |-> IF r.ret = "Ok" THEN "Successfully subscribed"
                       ELSE IF r.err = "UNIQUE constraint failed"
                            THEN "You are already subscribed"
                            ELSE "Error subscribing",
             called |-> TRUE,
             ret |-> r.ret, err |-> r.err, table |-> r.table, stmts |-> r.stmts]

\* bot.rs:54  Command::Unsubscribe(channel_name)
handle_command_Unsubscribe(t, chat_id, channel_name, fault) ==
    IF ~validate_channel_name(channel_name)
    THEN [reply |-> "Invalid channel name", called |-> FALSE,
          ret |-> "none", err |-> "", table |-> t, stmts |-> 0]
    ELSE LET r == unsubscribe(t, chat_id, channel_name, fault)
         IN [reply |-> CASE r.ret = "Ok(true)" -> "Successfully unsubscribed"
                         [] r.ret = "Ok(false)" -> "You are not subscribed"
                         [] OTHER -> "Error unsubscribing",
             called |-> TRUE,
             ret |-> r.ret, err |-> r.err, table |-> r.table, stmts |-> r.stmts]

----------------------------------------------------------------------------
(* Registry steps *)

NoCall ==
    [op |-> "none", via |-> "none", id |-> 0, channel |-> <<>>, ret |-> "none",
     err |-> "", reply |-> "", stmts |-> 0, before |-> NoRows, rows |-> <<>>,
     fault |-> FALSE]

\* a caller of db::subscribe (db.rs:67, :74, :82, :95, :102)
DbSubscribe(id, channel_name) ==
    \E fault \in BOOLEAN :
        LET r == subscribe(subscriptions, id, channel_name, fault)
        IN /\ subscriptions' = r.table
           /\ last' = [op |-> "subscribe", via |-> "db", id |-> id,
                       channel |-> channel_name, ret |-> r.ret, err |-> r.err,
                       reply |-> "", stmts |-> r.stmts, before |-> subscriptions,
                       rows |-> <<>>, fault |-> fault]
           /\ UNCHANGED <<req, vname, vresult, inflight>>

\* a caller of db::unsubscribe (db.rs:103, :113)
DbUnsubscribe(id, channel_name) ==
    \E fault \in BOOLEAN :
        LET r == unsubscribe(subscriptions, id, channel_name, fault)
        IN /\ subscriptions' = r.table
           /\ last' = [op |-> "unsubscribe", via |-> "db", id |-> id,
                       channel |-> channel_name, ret |-> r.ret, err |-> r.err,
                       reply |-> "", stmts |-> r.stmts, before |-> subscriptions,
                       rows |-> <<>>, fault |-> fault]
           /\ UNCHANGED <<req, vname, vresult, inflight>>

\* a caller of db::get_subscribers (db.rs:86, :106, :132)
DbGetSubscribers(channel_name) ==
    \E fault \in BOOLEAN :
        LET r == get_subscribers(subscriptions, channel_name, fault)
        IN /\ last' = [op |-> "get_subscribers", via |-> "db", id |-> 0,
                       channel |-> channel_name, ret |-> r.ret, err |-> "",
                       reply |-> "", stmts |-> r.stmts, before |-> subscriptions,
                       rows |-> r.rows, fault |-> fault]
           /\ UNCHANGED <<subscriptions, req, vname, vresult, inflight>>

\* api.rs:210  GET /subscriptions arrives with a valid Authorization header
GetSubscriptions ==
    \E fault \in BOOLEAN :
        LET r == get_subscriptions(subscriptions, fault)
        IN /\ last' = [op |-> "get_subscriptions", via |-> "api", id |-> r.total,
                       channel |-> <<>>,
                       ret |-> IF r.status = 200 THEN "Ok" ELSE "Err", err |-> "",
                       reply |-> "", stmts |-> r.stmts, before |-> subscriptions,
                       rows |-> r.subscriptions, fault |-> fault]
           /\ UNCHANGED <<subscriptions, req, vname, vresult, inflight>>

\* bot.rs:10  the repl hands /subscribe <channel_name> from chat `id` to handle_command
HandleSubscribe(id, channel_name) ==
    \E fault \in BOOLEAN :
        LET r == handle_command_Subscribe(subscriptions, id, channel_name, fault)
        IN /\ subscriptions' = r.table
           /\ last' = [op |-> "subscribe", via |-> "bot", id |-> id,
                       channel |-> channel_name, ret |-> r.ret, err |-> r.err,
                       reply |-> r.reply, stmts |-> r.stmts, before |-> subscriptions,
                       rows |-> <<>>, fault |-> fault]
           /\ UNCHANGED <<req, vname, vresult, inflight>>

\* bot.rs:10  the repl hands /unsubscribe <channel_name> from chat `id` to handle_command
HandleUnsubscribe(id, channel_name) ==
    \E fault \in BOOLEAN :
        LET r == handle_command_Unsubscribe(subscriptions, id, channel_name, fault)
        IN /\ subscriptions' = r.table
           /\ last' = [op |-> "unsubscribe", via |-> "bot", id |-> id,
                       channel |-> channel_name, ret |-> r.ret, err |-> r.err,
                       reply |-> r.reply, stmts |-> r.stmts, before |-> subscriptions,
                       rows |-> <<>>, fault |-> fault]
           /\ UNCHANGED <<req, vname, vresult, inflight>>

----------------------------------------------------------------------------
(* api.rs: the HTTP handlers send_message and broadcast.  One request is   *)
(* served at a time; the bot's commands interleave with its steps.         *)
(*   pc          idle -> query -> resolved -> sending -> done              *)
(*   reads       SQL statements the handler has run                        *)
(*   fault       whether the storage failed under the lookup               *)
(*   subscribers the Vec<i64> the lookup returned                          *)
(*   results     per telegram id in subscribers: how many of its delivery  *)
(*               futures are pending, resolved to Ok, resolved to Err      *)
(*   calls       per recipient: the number of bot.send_message calls       *)
(*   status, error, sent, errors, total: the response                      *)

NoCalls == [id \in Recipients |-> 0]

NoRequest ==
    [pc |-> "idle", kind |-> "none", channel |-> <<>>, message |-> 0,
     reads |-> 0, fault |-> FALSE, subscribers |-> <<>>, results |-> <<>>,
     calls |-> NoCalls,
     status |-> 0, error |-> "", sent |-> 0, errors |-> 0, total |-> 0]

NewRequest(kind, channel_name, message) ==
    [NoRequest EXCEPT !.kind = kind, !.channel = channel_name, !.message = message]

BadRequest(r, error) == [r EXCEPT !.pc = "done", !.status = 400, !.error = error]

InternalServerError(r) ==
    [r EXCEPT !.pc = "done", !.status = 500, !.error = "Database error occurred"]

Ok(r, sent, errors, total) ==
    [r EXCEPT !.pc = "done", !.status = 200, !.sent = sent, !.errors = errors,
              !.total = total]

\* send_message with >= for > in the length check
send_message_checks_CapRejected(r) ==
    IF r.message >= MaxMessageLen
    THEN BadRequest(r, "Message too long (max 1000 chars)")
    ELSE IF ~validate_channel_name(r.channel)
    THEN BadRequest(r, "Invalid channel name")
    ELSE [r EXCEPT !.pc = "query"]

\* api.rs:53-63  send_message: the checks before the lookup
send_message_checks(r) ==
    IF r.message > MaxMessageLen
    THEN BadRequest(r, "Message too long (max 1000 chars)")
    ELSE IF ~validate_channel_name(r.channel)
    THEN BadRequest(r, "Invalid channel name")
    ELSE [r EXCEPT !.pc = "query"]

\* api.rs:150-160  broadcast: the checks before the lookup
broadcast_checks(r) ==
    IF r.message = 0
    THEN BadRequest(r, "Message cannot be empty")
    ELSE IF r.message > MaxMessageLen
    THEN BadRequest(r, "Message too long (max 1000 chars)")
    ELSE [r EXCEPT !.pc = "query"]

\* send_message answering a channel without subscribers like a failed lookup
send_message_lookup_EmptyIsError(r, t, fault) ==
    LET found == get_subscribers(t, r.channel, fault)
        q == [r EXCEPT !.reads = @ + found.stmts]
    IN IF found.ret = "Ok" /\ Total(found.rows) > 0
       THEN [q EXCEPT !.pc = "resolved", !.subscribers = found.rows]
       ELSE InternalServerError(q)

\* send_message taking a failed lookup for a channel without subscribers
send_message_lookup_ErrIsEmpty(r, t, fault) ==
    LET found == get_subscribers(t, r.channel, fault)
        q == [r EXCEPT !.reads = @ + found.stmts]
    IN IF found.ret = "Ok" /\ Total(found.rows) > 0
       THEN [q EXCEPT !.pc = "resolved", !.subscribers = found.rows]
       ELSE Ok(q, 0, 0, 0)

\* api.rs:65-82  send_message: the lookup and what the handler does with it
send_message_lookup(r, t, fault) ==
    LET found == get_subscribers(t, r.channel, fault)
        q == [r EXCEPT !.reads = @ + found.stmts]
    IN IF found.ret = "Ok"
       THEN IF Total(found.rows) = 0
            THEN Ok(q, 0, 0, 0)
            ELSE [q EXCEPT !.pc = "resolved", !.subscribers = found.rows]
       ELSE InternalServerError(q)

\* broadcast with DISTINCT left out of its SELECT: one id per row
broadcast_lookup_NoDistinct(r, t, fault) ==
    LET q == [r EXCEPT !.reads = @ + 1]
        all_subscribers ==
            [id \in {row[1] : row \in DOMAIN t} |->
                Total([row \in {x \in DOMAIN t : x[1] = id} |-> t[row]])]
        total_subscribers == Total(all_subscribers)
    IN IF fault
       THEN InternalServerError(q)
       ELSE IF total_subscribers = 0
            THEN Ok(q, 0, 0, 0)
            ELSE [q EXCEPT !.pc = "resolved", !.subscribers = all_subscribers,
                           !.total = total_subscribers]

\* api.rs:163-189  broadcast: the lookup and what the handler does with it
broadcast_lookup(r, t, fault) ==
    LET q == [r EXCEPT !.reads = @ + 1]
        all_subscribers == SelectDistinctTelegramIds(t)
        total_subscribers == Total(all_subscribers)
    IN IF fault
       THEN InternalServerError(q)
       ELSE IF total_subscribers = 0
            THEN Ok(q, 0, 0, 0)
            ELSE [q EXCEPT !.pc = "resolved", !.subscribers = all_subscribers,
                           !.total = total_subscribers]

\* api.rs:84-89, :192-197  the first poll of join_all polls every future:
\* each calls bot.send_message for its element of subscribers
join_all_start(r) ==
    [r EXCEPT !.pc = "sending",
              !.results = [id \in DOMAIN r.subscribers |->
                              [pending |-> r.subscribers[id], ok |-> 0, failed |-> 0]],
              !.calls = [id \in Recipients |-> r.calls[id] + Copies(r.subscribers, id)]]

\* a delivery that failed is sent again instead of being counted
send_resolves_RetryFailed(r, id, is_ok) ==
    IF is_ok
    THEN [r EXCEPT !.results[id] = [@ EXCEPT !.pending = @ - 1, !.ok = @ + 1]]
    ELSE [r EXCEPT !.calls[id] = @ + 1]

\* api.rs:87, :195  bot.send_message(ChatId(id), message).await.is_ok() resolves
send_resolves(r, id, is_ok) ==
    [r EXCEPT !.results[id] =
        IF is_ok
        THEN [@ EXCEPT !.pending = @ - 1, !.ok = @ + 1]
        ELSE [@ EXCEPT !.pending = @ - 1, !.failed = @ + 1]]

\* the tally with the filter on success left out of the count
tally_CountsAll(r) ==
    LET len == Total([id \in DOMAIN r.results |->
                        r.results[id].pending + r.results[id].ok + r.results[id].failed])
    IN Ok(r, len, len - len, r.total)

\* api.rs:91-98, :199-206  the tally and the response
tally(r) ==
    LET len == Total([id \in DOMAIN r.results |->
                        r.results[id].pending + r.results[id].ok + r.results[id].failed])
        sent == Total([id \in DOMAIN r.results |-> r.results[id].ok])
        errors == len - sent
    IN Ok(r, sent, errors, r.total)

\* api.rs:48  POST /send-message arrives
SendMessage(channel_name, message) ==
    /\ req.pc \in {"idle", "done"}
    /\ req' = send_message_checks(NewRequest("send_message", channel_name, message))
    /\ UNCHANGED <<subscriptions, last, vname, vresult, inflight>>

\* api.rs:143  POST /broadcast arrives with a valid Authorization header
Broadcast(message) ==
    /\ req.pc \in {"idle", "done"}
    /\ req' = broadcast_checks(NewRequest("broadcast", <<>>, message))
    /\ UNCHANGED <<subscriptions, last, vname, vresult, inflight>>

\* api.rs:65  get_subscribers(&pool, &req.channel_name).await returns
LookupChannel ==
    /\ req.pc = "query"
    /\ req.kind = "send_message"
    /\ \E fault \in BOOLEAN :
          req' = [send_message_lookup(req, subscriptions, fault) EXCEPT !.fault = fault]
    /\ UNCHANGED <<subscriptions, last, vname, vresult, inflight>>

\* api.rs:163  the SELECT DISTINCT of broadcast returns
LookupAll ==
    /\ req.pc = "query"
    /\ req.kind = "broadcast"
    /\ \E fault \in BOOLEAN :
          req' = [broadcast_lookup(req, subscriptions, fault) EXCEPT !.fault = fault]
    /\ UNCHANGED <<subscriptions, last, vname, vresult, inflight>>

\* the handler reading the table again when it builds the deliveries
Dispatch_LookupAgain ==
    /\ req.pc = "resolved"
    /\ req' = join_all_start(
                 [req EXCEPT !.subscribers =
                     IF req.kind = "send_message"
                     THEN SelectTelegramIds(subscriptions, req.channel)
                     ELSE SelectDistinctTelegramIds(subscriptions)])
    /\ UNCHANGED <<subscriptions, last, vname, vresult, inflight>>

\* api.rs:84, :192  join_all(..).await is polled for the first time
Dispatch ==
    /\ req.pc = "resolved"
    /\ req' = join_all_start(req)
    /\ UNCHANGED <<subscriptions, last, vname, vresult, inflight>>

\* the deliveries made one after the other, stopping at the first failure
Deliver_Sequential(id, is_ok) ==
    /\ req.pc = "sending"
    /\ id \in DOMAIN req.results
    /\ req.results[id].pending > 0
    /\ \A j \in DOMAIN req.results :
          j < id => (req.results[j].pending = 0 /\ req.results[j].failed = 0)
    /\ req' = send_resolves(req, id, is_ok)
    /\ UNCHANGED <<subscriptions, last, vname, vresult, inflight>>

\* api.rs:87, :195  one delivery to id resolves, to success or to failure
Deliver(id, is_ok) ==
    /\ req.pc = "sending"
    /\ id \in DOMAIN req.results
    /\ req.results[id].pending > 0
    /\ req' = send_resolves(req, id, is_ok)
    /\ UNCHANGED <<subscriptions, last, vname, vresult, inflight>>

\* the handler responding without waiting for the pending deliveries
Respond_Unawaited ==
    /\ req.pc = "sending"
    /\ req' = tally(req)
    /\ UNCHANGED <<subscriptions, last, vname, vresult, inflight>>

\* api.rs:89, :197  join_all is ready once every future is: the handler responds
Respond ==
    /\ req.pc = "sending"
    /\ \A id \in DOMAIN req.results : req.results[id].pending = 0
    /\ req' = tally(req)
    /\ UNCHANGED <<subscriptions, last, vname, vresult, inflight>>

\* bot.rs:26  /subscribe handled while a request is served; the reply goes to
\* the chat and is not kept
BotSubscribe(id, channel_name) ==
    /\ \E fault \in BOOLEAN :
          subscriptions' =
             handle_command_Subscribe(subscriptions, id, channel_name, fault).table
    /\ UNCHANGED <<last, req, vname, vresult, inflight>>

\* bot.rs:54  /unsubscribe handled while a request is served
BotUnsubscribe(id, channel_name) ==
    /\ \E fault \in BOOLEAN :
          subscriptions' =
             handle_command_Unsubscribe(subscriptions, id, channel_name, fault).table
    /\ UNCHANGED <<last, req, vname, vresult, inflight>>

(* Concurrent callers of db::subscribe: the bot task spawned by main.rs and *)
(* every other holder of a clone of the pool.  A call is in flight from    *)
(* the moment it is made until its one INSERT has run; the storage runs    *)
(* the statements of concurrent calls one at a time, in any order.         *)

Tasks == {"t1", "t2"}

\* the channel names the concurrent callers subscribe to
TaskNames == {NameNews1, NameTech, NameNewsSpace1}

IdleCall ==
    [pc |-> "idle", id |-> 0, channel |-> <<>>, absent |-> FALSE, ret |-> "none",
     err |-> "", stmts |-> 0, fault |-> FALSE]

NoInflight == [t \in Tasks |-> IdleCall]

\* db.rs:24  task t calls subscribe(pool, id, channel_name); absent: the
\* table holds no row for the pair at the moment of the call
SubscribeCalled(t, id, channel_name) ==
    /\ inflight[t].pc = "idle"
    /\ inflight' = [inflight EXCEPT ![t] =
          [IdleCall EXCEPT !.pc = "called", !.id = id, !.channel = channel_name,
                           !.absent = Copies(subscriptions, <<id, channel_name>>) = 0]]
    /\ UNCHANGED <<subscriptions, last, req, vname, vresult>>

\* db.rs:25-36  the call of task t runs: validation, the INSERT, the result
SubscribeReturns(t) ==
    /\ inflight[t].pc = "called"
    /\ \E fault \in BOOLEAN :
          LET c == inflight[t]
              r == subscribe(subscriptions, c.id, c.channel, fault)
          IN /\ subscriptions' = r.table
             /\ inflight' = [inflight EXCEPT ![t] =
                   [c EXCEPT !.pc = "returned", !.ret = r.ret, !.err = r.err,
                             !.stmts = r.stmts, !.fault = fault]]
    /\ UNCHANGED <<last, req, vname, vresult>>

\* the caller of task t is done with the result
SubscribeDropped(t) ==
    /\ inflight[t].pc = "returned"
    /\ inflight' = [inflight EXCEPT ![t] = IdleCall]
    /\ UNCHANGED <<subscriptions, last, req, vname, vresult>>

----------------------------------------------------------------------------
Init ==
    /\ subscriptions = NoRows
    /\ last = NoCall
    /\ req = NoRequest
    /\ vname = <<>>
    /\ vresult = "none"
    /\ inflight = NoInflight

\* the registry driven through db.rs and through the bot, channel names from Names
RegistryNext(Names) ==
    \/ \E id \in Recipients, c \in Names : DbSubscribe(id, c)
    \/ \E id \in Recipients, c \in Names : DbUnsubscribe(id, c)
    \/ \E c \in Names : DbGetSubscribers(c)
    \/ \E id \in Recipients, c \in Names : HandleSubscribe(id, c)
    \/ \E id \in Recipients, c \in Names : HandleUnsubscribe(id, c)
    \/ GetSubscriptions

\* the channel names of the requests
RequestNames == {NameNews1, NameTech, NameNewsSpace1}

\* the channel names of the commands that arrive while a request is served
BotNames == {NameNews1, NameTech}

\* the HTTP server and the bot task side by side: requests for the channels
\* ReqNames with messages of the lengths Msgs, commands for the channels CmdNames
ServerNext(ReqNames, Msgs, CmdNames) ==
    \/ \E c \in ReqNames, m \in Msgs : SendMessage(c, m)
    \/ \E m \in Msgs : Broadcast(m)
    \/ LookupChannel
    \/ LookupAll
    \/ Dispatch
    \/ \E id \in Recipients, is_ok \in BOOLEAN : Deliver(id, is_ok)
    \/ Respond
    \/ \E id \in Recipients, c \in CmdNames : BotSubscribe(id, c)
    \/ \E id \in Recipients, c \in CmdNames : BotUnsubscribe(id, c)

Next == ServerNext(RequestNames, Messages, BotNames)

Spec == Init /\ [][Next]_vars

NextRegistry == RegistryNext(AsciiNames)

\* the runtime polls a handler that can make progress (Dispatch, Respond);
\* every delivery that was started resolves, each on its own
Fairness ==
    /\ WF_vars(Dispatch)
    /\ WF_vars(Respond)
    /\ \A id \in Recipients : WF_vars(\E is_ok \in BOOLEAN : Deliver(id, is_ok))

\* one channel, an empty and a one-byte message
NextFair == ServerNext({NameNews1}, {0, 1}, {NameNews1})

SpecFair == Init /\ [][NextFair]_vars /\ Fairness

SpecRegistry == Init /\ [][NextRegistry]_vars

NextUnicode == RegistryNext(UnicodeNames)

SpecUnicode == Init /\ [][NextUnicode]_vars

\* two tasks calling db::subscribe concurrently
NextConcurrent ==
    \/ \E t \in Tasks, id \in Recipients, c \in TaskNames : SubscribeCalled(t, id, c)
    \/ \E t \in Tasks : SubscribeReturns(t)
    \/ \E t \in Tasks : SubscribeDropped(t)

SpecConcurrent == Init /\ [][NextConcurrent]_vars

----------------------------------------------------------------------------
(* validate_channel_name applied to every string over Alphabet of at most  *)
(* MaxNameLen characters                                                   *)

InitValidate ==
    /\ subscriptions = NoRows
    /\ last = NoCall
    /\ req = NoRequest
    /\ vname \in Strings
    /\ vresult = "none"
    /\ inflight = NoInflight

ValidateChannelName ==
    /\ vresult = "none"
    /\ vresult' = IF validate_channel_name(vname) THEN "true" ELSE "false"
    /\ UNCHANGED <<subscriptions, last, req, vname, inflight>>

NextValidate == ValidateChannelName

SpecValidate == InitValidate /\ [][NextValidate]_vars

----------------------------------------------------------------------------
(* What the specification calls the outcomes of the registry operations *)

\* spec section 3: a channel name is non-empty and every character is an
\* ASCII letter, an ASCII digit or an underscore
ChannelNameInvariant(name) ==
    /\ Len(name) > 0
    /\ \A i \in 1..Len(name) :
          name[i] \in (65..90) \cup (97..122) \cup (48..57) \cup {95}

\* the outcome of the call recorded in l, as its caller can tell it
Outcome(l) ==
    CASE l.op = "subscribe" /\ l.via = "db" ->
            (CASE l.ret = "Ok" -> "ok"
               [] l.err = "Invalid channel name" -> "InvalidChannelName"
               [] l.err = "UNIQUE constraint failed" -> "AlreadySubscribed"
               [] OTHER -> "StorageFailure")
      [] l.op = "subscribe" /\ l.via = "bot" ->
            (CASE l.reply = "Successfully subscribed" -> "ok"
               [] l.reply = "Invalid channel name" -> "InvalidChannelName"
               [] l.reply = "You are already subscribed" -> "AlreadySubscribed"
               [] OTHER -> "StorageFailure")
      [] l.op = "unsubscribe" /\ l.via = "db" ->
            (CASE l.ret = "Ok(true)" -> "Removed"
               [] l.ret = "Ok(false)" -> "NotSubscribed"
               [] OTHER -> "StorageFailure")
      [] l.op = "unsubscribe" /\ l.via = "bot" ->
            (CASE l.reply = "Successfully unsubscribed" -> "Removed"
               [] l.reply = "You are not subscribed" -> "NotSubscribed"
               [] l.reply = "Invalid channel name" -> "InvalidChannelName"
               [] OTHER -> "StorageFailure")
      [] OTHER -> "none"

LastRow == <<last.id, last.channel>>

----------------------------------------------------------------------------
(* Claims *)

\* C1: the registry holds at most one subscription per (recipient, channel)
\* pair, and a subscribe(r, c) issued while (r, c) is present fails - with
\* AlreadySubscribed unless the storage itself failed - and leaves exactly
\* one subscription matching (r, c).
C1_AtMostOnePerPair ==
    /\ \A row \in DOMAIN subscriptions : subscriptions[row] = 1
    /\ (last.op = "subscribe" /\ Copies(last.before, LastRow) > 0) =>
          /\ last.ret = "Err"
          /\ ~last.fault => Outcome(last) = "AlreadySubscribed"
          /\ Copies(subscriptions, LastRow) = 1

C1_Witness ==
    /\ last.op = "subscribe"
    /\ Copies(last.before, LastRow) = 1
    /\ Outcome(last) = "AlreadySubscribed"
    /\ Copies(subscriptions, LastRow) = 1

\* C5: absent a storage failure get_subscribers(c) succeeds and returns
\* every recipient that holds a subscription to c exactly once and no other
\* recipient (so the empty list, not an error, when c has no subscriber).
C5_SubscribersExact ==
    (last.op = "get_subscribers" /\ ~last.fault) =>
        /\ last.ret = "Ok"
        /\ DOMAIN last.rows \subseteq Recipients
        /\ \A id \in Recipients :
              Copies(last.rows, id) =
                 IF <<id, last.channel>> \in DOMAIN subscriptions THEN 1 ELSE 0

C5_Witness ==
    /\ last.op = "get_subscribers"
    /\ last.ret = "Ok"
    /\ Total(last.rows) >= 1
    /\ \E row \in DOMAIN subscriptions :
          /\ row[2] # last.channel
          /\ Copies(last.rows, row[1]) = 0

\* C6: unsubscribe(r, c) when no subscription (r, c) exists leaves the table
\* as it was and, when db::unsubscribe is reached and the storage does not
\* fail, returns Ok(false), which the caller sees as NotSubscribed.
C6_UnsubscribeAbsent ==
    (last.op = "unsubscribe" /\ Copies(last.before, LastRow) = 0) =>
        /\ subscriptions = last.before
        /\ (last.ret # "none" /\ ~last.fault) =>
              /\ last.ret = "Ok(false)"
              /\ Outcome(last) = "NotSubscribed"

C6_Witness ==
    /\ last.op = "unsubscribe"
    /\ Copies(last.before, LastRow) = 0
    /\ last.ret = "Ok(false)"
    /\ subscriptions = last.before
    /\ subscriptions # NoRows

\* C7: unsubscribe(recipient, channel) with a channel name that breaks the
\* invariant of section 3 returns InvalidChannelName and runs no SQL
\* statement, by whichever path unsubscribe is called.
C7_UnsubscribeValidatesFirst ==
    (last.op = "unsubscribe" /\ ~ChannelNameInvariant(last.channel)) =>
        /\ Outcome(last) = "InvalidChannelName"
        /\ last.stmts = 0

\* C8: subscribe(recipient, channel) with a channel name that breaks the
\* invariant of section 3 fails before any SQL statement is run and leaves
\* the table unchanged, so no stored row has such a channel name.
C8_SubscribeValidatesFirst ==
    /\ (last.op = "subscribe" /\ ~ChannelNameInvariant(last.channel)) =>
          /\ last.ret # "Ok"
          /\ last.stmts = 0
          /\ subscriptions = last.before
    /\ \A row \in DOMAIN subscriptions : ChannelNameInvariant(row[2])

\* C9: validate_channel_name accepts a string if and only if it is non-empty
\* and every character is an ASCII letter, an ASCII digit or an underscore.
C9_ValidateIffAsciiWord ==
    vresult # "none" => (vresult = "true" <=> ChannelNameInvariant(vname))

\* the recipients the lookup resolved form a set: no telegram id twice
ResolvedIsSet == \A id \in DOMAIN req.subscribers : req.subscribers[id] = 1

\* the recipients whose delivery resolved to success
Succeeded == {id \in DOMAIN req.results : req.results[id].ok > 0}

\* C2: once a non-empty resolved recipient set is dispatched, and to the end
\* of the request, bot.send_message has been called exactly once for every
\* recipient in the set and never for a recipient outside it, whatever the
\* deliveries resolved to (nothing is sent a second time).
C2_OneCallPerRecipient ==
    (req.pc \in {"sending", "done"} /\ Total(req.subscribers) > 0 /\ ResolvedIsSet) =>
        \A id \in Recipients :
            req.calls[id] = IF id \in DOMAIN req.subscribers THEN 1 ELSE 0

C2_Witness ==
    /\ req.pc = "done"
    /\ req.status = 200
    /\ \E id \in DOMAIN req.subscribers :
          /\ req.results[id].failed = 1
          /\ req.calls[id] = 1
    /\ \E other \in Recipients \ DOMAIN req.subscribers :
          /\ req.calls[other] = 0
          /\ \E row \in DOMAIN subscriptions : row[1] = other

\* C3: the report of a dispatch has sent = the number of recipients whose
\* delivery succeeded and errors = the number of recipients - sent, for every
\* assignment of success and failure and every order of completion.
C3_TallyExact ==
    (req.pc = "done" /\ req.status = 200 /\ ResolvedIsSet) =>
        /\ req.sent = Cardinality(Succeeded)
        /\ req.errors = Total(req.subscribers) - req.sent
        /\ req.sent + req.errors = Cardinality(DOMAIN req.subscribers)

C3_Witness ==
    /\ req.pc = "done"
    /\ req.status = 200
    /\ Total(req.subscribers) = 2
    /\ req.sent = 1
    /\ req.errors = 1

\* the table holds no recipient for the request being served
NothingToResolve ==
    IF req.kind = "send_message"
    THEN \A row \in DOMAIN subscriptions : row[2] # req.channel
    ELSE subscriptions = NoRows

\* C4, the lookup: a lookup that does not fail and finds no recipient ends the
\* request at once with 200, sent = 0 and errors = 0.
C4_EmptyLookupStep ==
    (req.pc = "query" /\ req'.pc # "query" /\ ~req'.fault /\ NothingToResolve) =>
        /\ req'.pc = "done"
        /\ req'.status = 200
        /\ req'.sent = 0
        /\ req'.errors = 0
        /\ Total(req'.subscribers) = 0

\* C4, the outcome: a request answered for an empty recipient set reports
\* sent = 0 and errors = 0 and has called bot.send_message for nobody.
C4_EmptyOutcome ==
    (req.pc = "done" /\ req.reads > 0 /\ ~req.fault /\ Total(req.subscribers) = 0) =>
        /\ req.status = 200
        /\ req.sent = 0
        /\ req.errors = 0
        /\ req.calls = NoCalls

\* C4: when the resolved recipient set is empty (send to a channel without
\* subscribers, broadcast without subscriptions) the call returns sent = 0,
\* errors = 0 and no delivery is ever invoked.
C4_EmptySetNoDelivery == [][C4_EmptyLookupStep]_vars /\ []C4_EmptyOutcome

C4_Witness ==
    /\ req.kind = "send_message"
    /\ req.pc = "done"
    /\ req.status = 200
    /\ req.reads = 1
    /\ Total(req.subscribers) = 0
    /\ req.calls = NoCalls
    /\ subscriptions # NoRows

\* C10: in send_message and in broadcast a message of len() = MaxMessageLen
\* is not rejected for its length (and, the channel name being valid, not
\* rejected at all), and a message of len() > MaxMessageLen is rejected with
\* 400 before any SQL statement is run and before any delivery is invoked.
C10_LengthBoundary ==
    /\ (req.kind # "none" /\ req.message > MaxMessageLen) =>
          /\ req.pc = "done"
          /\ req.status = 400
          /\ req.reads = 0
          /\ req.calls = NoCalls
    /\ (req.kind # "none" /\ req.message = MaxMessageLen) =>
          /\ req.error # "Message too long (max 1000 chars)"
          /\ (req.kind = "send_message" => validate_channel_name(req.channel))
                => req.status # 400

C10_Witness ==
    /\ req.kind = "send_message"
    /\ req.message = MaxMessageLen
    /\ req.pc = "done"
    /\ req.status = 200
    /\ req.sent >= 1

\* the recipients that hold at least one subscription
Subscribed == {row[1] : row \in DOMAIN subscriptions}

\* C11, the lookup: the query of broadcast, when the storage does not fail,
\* resolves exactly the recipients that hold at least one subscription, each
\* once, and total_subscribers is their number.
C11_DistinctLookupStep ==
    (req.kind = "broadcast" /\ req.pc = "query" /\ req'.pc # "query" /\ ~req'.fault) =>
        /\ DOMAIN req'.subscribers = Subscribed
        /\ \A id \in Subscribed : req'.subscribers[id] = 1
        /\ req'.total = Cardinality(Subscribed)

\* C11, the dispatch: broadcast has called bot.send_message once for each
\* distinct recipient it resolved, and reports their number.
C11_OncePerDistinct ==
    (req.kind = "broadcast" /\ req.pc \in {"sending", "done"}
        /\ Total(req.subscribers) > 0) =>
        /\ \A id \in Recipients :
              req.calls[id] = IF id \in DOMAIN req.subscribers THEN 1 ELSE 0
        /\ req.total = Cardinality(DOMAIN req.subscribers)

\* C11: the recipient resolution of broadcast yields each recipient that
\* holds at least one subscription exactly once, however many channels the
\* recipient is subscribed to, so broadcast invokes delivery once per distinct
\* recipient and total_subscribers is the number of distinct recipients.
C11_BroadcastDistinct == [][C11_DistinctLookupStep]_vars /\ []C11_OncePerDistinct

C11_Witness ==
    /\ req.kind = "broadcast"
    /\ req.pc = "done"
    /\ req.status = 200
    /\ \E id \in DOMAIN req.subscribers :
          /\ Cardinality({row \in DOMAIN subscriptions : row[1] = id}) = 2
          /\ req.calls[id] = 1
    /\ req.total = Cardinality(Subscribed)

\* C12, the listing: absent a storage failure GET /subscriptions leaves the
\* table as it was and lists every row of it exactly once, ordered by channel
\* name and then by telegram id; total is the number of rows listed.
C12_ListingOrdered ==
    (last.op = "get_subscriptions" /\ ~last.fault) =>
        /\ last.ret = "Ok"
        /\ subscriptions = last.before
        /\ last.id = Len(last.rows)
        /\ {last.rows[i] : i \in 1..Len(last.rows)} = DOMAIN subscriptions
        /\ \A i, j \in 1..Len(last.rows) :
              i < j =>
                 \/ NameBefore(last.rows[i][2], last.rows[j][2])
                 \/ /\ last.rows[i][2] = last.rows[j][2]
                    /\ last.rows[i][1] < last.rows[j][1]

\* C12, twice: a listing that directly follows a listing, neither failing,
\* is the same sequence.
C12_ListingTwiceStep ==
    (last.op = "get_subscriptions" /\ last'.op = "get_subscriptions"
        /\ ~last.fault /\ ~last'.fault) =>
        /\ last'.rows = last.rows
        /\ subscriptions' = subscriptions

\* C12: list_subscriptions returns exactly the current subscriptions ordered
\* by channel name and then by recipient identifier, does not change the
\* registry, and returns identical ordered output when called twice with no
\* subscribe or unsubscribe in between.
C12_ListSubscriptions == []C12_ListingOrdered /\ [][C12_ListingTwiceStep]_vars

C12_Witness ==
    /\ last.op = "get_subscriptions"
    /\ last.ret = "Ok"
    /\ Len(last.rows) >= 3
    /\ \E i, j \in 1..Len(last.rows) : i < j /\ last.rows[i][1] > last.rows[j][1]

\* C13: a subscribe that meets the uniqueness constraint is reported as
\* AlreadySubscribed and never as StorageFailure; AlreadySubscribed is
\* reported only for a pair that was present, never for a storage failure of
\* another kind, which is reported as StorageFailure; and InvalidChannelName
\* is reported only when no statement was run.
C13_DuplicateDistinct ==
    last.op = "subscribe" =>
        /\ (Copies(last.before, LastRow) > 0 /\ ~last.fault) =>
              Outcome(last) = "AlreadySubscribed"
        /\ Outcome(last) = "AlreadySubscribed" =>
              (Copies(last.before, LastRow) > 0 /\ ~last.fault)
        /\ (last.fault /\ last.stmts > 0) => Outcome(last) = "StorageFailure"
        /\ Outcome(last) = "InvalidChannelName" => last.stmts = 0

C13_Witness ==
    /\ last.op = "subscribe"
    /\ last.via = "bot"
    /\ Copies(last.before, LastRow) = 1
    /\ last.reply = "You are already subscribed"
    /\ last.err = "UNIQUE constraint failed"

\* C14: two subscribe calls for the same (r, c), both made while the registry
\* holds no subscription for (r, c) and neither hit by a storage failure:
\* whichever INSERT runs first, one call returns Ok, the other fails with
\* AlreadySubscribed, and the registry holds exactly one subscription for
\* (r, c).  Each call runs one statement, the INSERT: no SELECT before it.
C14_ConcurrentSubscribe ==
    \A t \in Tasks : \A u \in Tasks \ {t} :
        LET a == inflight[t]
            b == inflight[u]
        IN (/\ a.pc = "returned" /\ b.pc = "returned"
            /\ a.id = b.id /\ a.channel = b.channel
            /\ a.absent /\ b.absent
            /\ validate_channel_name(a.channel)
            /\ ~a.fault /\ ~b.fault) =>
               /\ {a.ret, b.ret} = {"Ok", "Err"}
               /\ \A x \in {a, b} :
                     x.ret = "Err" => x.err = "UNIQUE constraint failed"
               /\ Copies(subscriptions, <<a.id, a.channel>>) = 1
               /\ a.stmts = 1 /\ b.stmts = 1

C14_Witness ==
    /\ inflight["t1"].pc = "returned" /\ inflight["t2"].pc = "returned"
    /\ inflight["t1"].id = inflight["t2"].id
    /\ inflight["t1"].channel = NameNews1 /\ inflight["t2"].channel = NameNews1
    /\ inflight["t1"].absent /\ inflight["t2"].absent
    /\ inflight["t1"].ret = "Err" /\ inflight["t2"].ret = "Ok"
    /\ inflight["t1"].err = "UNIQUE constraint failed"
    /\ Copies(subscriptions, <<inflight["t1"].id, NameNews1>>) = 1

\* C15: the handler answers a dispatch only when every delivery it started
\* has resolved: the step that produces the report is taken with no delivery
\* pending, and in the report every targeted recipient's deliveries are
\* resolved and all of them are counted in sent + errors.
C15_ReportStep ==
    (req.pc = "sending" /\ req'.pc = "done") =>
        \A id \in DOMAIN req.results : req.results[id].pending = 0

C15_ReportComplete ==
    (req.pc = "done" /\ req.status = 200 /\ Total(req.subscribers) > 0) =>
        /\ DOMAIN req.results = DOMAIN req.subscribers
        /\ \A id \in DOMAIN req.results :
              /\ req.results[id].pending = 0
              /\ req.results[id].ok + req.results[id].failed = req.subscribers[id]
        /\ req.sent + req.errors = Total(req.subscribers)

C15_ReportAfterAllResolved == [][C15_ReportStep]_vars /\ []C15_ReportComplete

C15_Witness ==
    /\ req.pc = "done" /\ req.status = 200
    /\ DOMAIN req.results = {1, 2}
    /\ req.results[1].ok = 1 /\ req.results[2].failed = 1
    /\ req.results[1].pending = 0 /\ req.results[2].pending = 0
    /\ req.sent = 1 /\ req.errors = 1

\* C16: a request whose lookup failed ends at once with 500 and the database
\* error, carries no counts and has called bot.send_message for nobody; 500
\* is answered for no other reason, so a request whose deliveries failed,
\* all of them included, still ends with 200 and its report.
C16_LookupFailureIsHard ==
    req.fault =>
        /\ req.pc = "done"
        /\ req.status = 500
        /\ req.error = "Database error occurred"
        /\ req.sent = 0 /\ req.errors = 0 /\ req.total = 0
        /\ req.calls = NoCalls
        /\ req.results = <<>>

C16_DeliveryFailureIsAbsorbed ==
    /\ req.status = 500 => req.fault
    /\ (req.pc = "done" /\ \E id \in DOMAIN req.results : req.results[id].failed > 0) =>
          /\ req.status = 200
          /\ req.error = ""
          /\ req.errors = Total([id \in DOMAIN req.results |-> req.results[id].failed])

C16_HardFailureOnlyFromLookup ==
    C16_LookupFailureIsHard /\ C16_DeliveryFailureIsAbsorbed

C16_Witness ==
    /\ req.kind = "send_message"
    /\ req.fault
    /\ req.status = 500
    /\ Total(SelectTelegramIds(subscriptions, req.channel)) > 0
    /\ req.calls = NoCalls

\* C17: a request with an empty message, to /send-message or to /broadcast,
\* is answered 400 with no statement run on the storage and no call of
\* bot.send_message.
C17_EmptyMessageRejected ==
    (req.kind \in {"send_message", "broadcast"} /\ req.message = 0) =>
        /\ req.pc = "done"
        /\ req.status = 400
        /\ req.reads = 0
        /\ req.calls = NoCalls

\* C18: from the return of the lookup to the response the handler works on
\* the ids the lookup returned: no step changes them, a /subscribe or
\* /unsubscribe handled meanwhile changes the table and nothing of the
\* request, bot.send_message is called for exactly the ids of the lookup,
\* and sent + errors of the report is their number.
C18_FixedSetStep ==
    /\ req.pc \in {"resolved", "sending"} => req'.subscribers = req.subscribers
    /\ req.pc = "sending" => req'.calls = req.calls
    /\ subscriptions' # subscriptions => req' = req

C18_TallyOfResolvedSet ==
    /\ (req.pc \in {"sending", "done"} /\ Total(req.subscribers) > 0) =>
          \A id \in Recipients : req.calls[id] = Copies(req.subscribers, id)
    /\ (req.pc = "done" /\ req.status = 200) =>
          req.sent + req.errors = Total(req.subscribers)

C18_RecipientSetFixed == [][C18_FixedSetStep]_vars /\ []C18_TallyOfResolvedSet

C18_Witness ==
    /\ req.kind = "send_message"
    /\ req.pc = "done" /\ req.status = 200
    /\ DOMAIN req.subscribers = {1, 2}
    /\ SelectTelegramIds(subscriptions, req.channel) = <<>>
    /\ req.calls[1] = 1 /\ req.calls[2] = 1
    /\ req.sent + req.errors = 2

\* C19: an unsubscribe(r, c) that finds (r, c) and meets no storage failure
\* returns Removed and leaves the table as it was but for the row (r, c);
\* a subscribe(r, c) that succeeds leaves the table as it was but for one
\* added row (r, c); and an unsubscribe(r, c) that follows a successful
\* subscribe(r, c) leaves the table as it was before the subscribe.
C19_ExactlyThatRow ==
    /\ (last.op = "unsubscribe" /\ Copies(last.before, LastRow) > 0 /\ ~last.fault) =>
          /\ Outcome(last) = "Removed"
          /\ DOMAIN subscriptions = DOMAIN last.before \ {LastRow}
          /\ \A x \in DOMAIN subscriptions : subscriptions[x] = last.before[x]
    /\ (last.op = "subscribe" /\ Outcome(last) = "ok") =>
          /\ DOMAIN subscriptions = DOMAIN last.before \cup {LastRow}
          /\ \A x \in DOMAIN last.before : subscriptions[x] = last.before[x]
          /\ Copies(last.before, LastRow) = 0
          /\ subscriptions[LastRow] = 1

C19_RoundTripStep ==
    (/\ last.op = "subscribe" /\ Outcome(last) = "ok"
     /\ last'.op = "unsubscribe" /\ <<last'.id, last'.channel>> = LastRow
     /\ ~last'.fault) =>
        /\ Outcome(last') = "Removed"
        /\ DOMAIN subscriptions' = DOMAIN last.before
        /\ \A x \in DOMAIN last.before : subscriptions'[x] = last.before[x]

C19_NoCascade == []C19_ExactlyThatRow /\ [][C19_RoundTripStep]_vars

C19_Witness ==
    /\ last.op = "unsubscribe" /\ last.via = "db"
    /\ last.id = 1 /\ last.channel = NameNews1
    /\ last.ret = "Ok(true)"
    /\ DOMAIN last.before = {<<1, NameNews1>>, <<1, NameTech>>, <<2, NameNews1>>}
    /\ DOMAIN subscriptions = {<<1, NameTech>>, <<2, NameNews1>>}

\* C20: if every delivery that was started resolves, a request whose lookup
\* returned subscribers is answered with its report; every delivery that is
\* pending resolves whatever the other deliveries do, and the resolution of
\* one delivery, to success or to failure, leaves the others as they were.
C20_Returns ==
    (req.pc \in {"resolved", "sending"}) ~> (req.pc = "done" /\ req.status = 200)

C20_EachResolves ==
    \A id \in Recipients :
        (req.pc = "sending" /\ id \in DOMAIN req.results /\ req.results[id].pending > 0)
            ~> (req.pc \in {"sending", "done"} /\ id \in DOMAIN req.results
                /\ req.results[id].pending = 0)

C20_IndependentStep ==
    (req.pc = "sending" /\ req'.pc = "sending") =>
        \A id \in DOMAIN req.results : \A j \in DOMAIN req.results \ {id} :
            req'.results[id] # req.results[id] => req'.results[j] = req.results[j]

C20_DispatchTerminates ==
    C20_Returns /\ C20_EachResolves /\ [][C20_IndependentStep]_vars

C20_Witness ==
    /\ req.pc = "done" /\ req.status = 200
    /\ DOMAIN req.results = {1, 2}
    /\ req.results[1].failed = 1 /\ req.results[2].ok = 1
    /\ req.calls[1] = 1 /\ req.calls[2] = 1
    /\ req.errors = 1 /\ req.sent = 1

============================================================================
